---- MODULE Spec2Model ----
(***************************************************************************)
(* KC868-A16 controller (src/main.py): four PCF8574 register mirrors on    *)
(* one I2C bus, the relay / input registries, the HTTP control and state   *)
(* handlers and the key scanning task, under the cooperative scheduler.    *)
(*                                                                         *)
(* Every handler and every pass of scan_keys runs without a suspension     *)
(* point between its bus transactions, so each is one action.  A bus       *)
(* transaction on a device fails (OSError) when the device is in the set   *)
(* `fail` the environment picks for that action.                           *)
(***************************************************************************)
EXTENDS Integers, Sequences, FiniteSets, TLC

VARIABLES
    is_valid,     \* PCF8574.is_valid, per bus address
    value,        \* PCF8574.value, the cached byte, per bus address
    reg,          \* the byte each chip holds: pin levels (inputs), latch (outputs)
    last_ok,      \* history: byte of the last successful bus read or write, per address
    prev_state,   \* scan_keys: prev_state, address -> byte or None
    seen,         \* history: byte of the last successful read_all made by scan_keys
    missed,       \* history: whether the last reads scan_keys made of the chip failed
    pc,           \* position of the program
    last,         \* history: the step taken last and its inputs
    calls,        \* history: the write_pin calls of the last step, in order
    bus,          \* history: the bus transactions of the last step, in order
    response,     \* what the last step wrote to the HTTP client
    faults,       \* history: the number of steps in which a bus transaction could fail
    requests      \* history: the number of HTTP requests handled

vars == <<is_valid, value, reg, last_ok, prev_state, seen, missed, pc, last, calls, bus, response,
          faults, requests>>

----------------------------------------------------------------------------
(* Hardware configuration *)

ADDR_INPUTS_1_8 == 34
ADDR_INPUTS_9_16 == 33
ADDR_OUTPUTS_1_8 == 36
ADDR_OUTPUTS_9_16 == 37

InputAddrs == {ADDR_INPUTS_1_8, ADDR_INPUTS_9_16}
OutputAddrs == {ADDR_OUTPUTS_1_8, ADDR_OUTPUTS_9_16}
Addrs == InputAddrs \cup OutputAddrs

\* PCF8574.__init__: self.value = 0xFF
InitialValue == 255

\* Python's None where a byte is expected (read_all's failure result)
None == -1

\* range(8): the pins of one chip
Pins == 0 .. 7

----------------------------------------------------------------------------
(* Bounds of the model *)

\* pin patterns of the chip of inputs 1-8: its lowest 0 .. MaxPressed buttons held down
MaxPressed == 2
\* pin patterns of the chip of inputs 9-16: its lowest 0 .. MaxPressedHigh buttons held down
MaxPressedHigh == 1
\* control requests of the running system name the first MaxLoopRelay relays of each chip
MaxLoopRelay == 1
\* at most MaxInvalid chips fail the probe of the constructor
MaxInvalid == 1
\* at most MaxFailing chips have failing bus transactions during one step
MaxFailing == 1
\* at most MaxFaults steps of a run have failing bus transactions
MaxFaults == 1
\* at most MaxRequests HTTP requests are handled in a run
MaxRequests == 2

----------------------------------------------------------------------------
(* Bit arithmetic on Python ints holding one byte *)

Pow2(n) == 2 ^ n

\* bool(v & (1 << n))
Bit(v, n) == (v \div Pow2(n)) % 2

\* v | (1 << n)
SetBit(v, n) == IF Bit(v, n) = 1 THEN v ELSE v + Pow2(n)

\* v & ~(1 << n)
ClearBit(v, n) == IF Bit(v, n) = 1 THEN v - Pow2(n) ELSE v

RECURSIVE XorFrom(_, _, _)
XorFrom(a, b, n) ==
    IF n > 7 THEN 0
    ELSE (IF Bit(a, n) /= Bit(b, n) THEN Pow2(n) ELSE 0) + XorFrom(a, b, n + 1)

\* a ^ b
Xor(a, b) == XorFrom(a, b, 0)

----------------------------------------------------------------------------
(* str() and the f-string formats *)

Digit == <<"0", "1", "2", "3", "4", "5", "6", "7", "8", "9">>

\* str(n) for 0 <= n <= 99
Str(n) == IF n < 10 THEN Digit[n + 1] ELSE Digit[(n \div 10) + 1] \o Digit[(n % 10) + 1]

\* f"X{n:02d}"
XName(n) == "X" \o Digit[(n \div 10) + 1] \o Digit[(n % 10) + 1]

----------------------------------------------------------------------------
(* PCF8574: the register mirror.  hw is the record of the four mirrors,    *)
(* the chips and the logs of the step under way.                           *)

BusEntry(op, addr, byte, ok) == [op |-> op, addr |-> addr, byte |-> byte, ok |-> ok]

\* read_all as it would be without the is_valid guard of line 35
read_all_Unguarded(hw, addr, fail) ==
    IF addr \in fail
    THEN [hw |-> [hw EXCEPT !.bus = Append(@, BusEntry("read", addr, None, FALSE))],
          ret |-> None]
    ELSE [hw |-> [hw EXCEPT !.value[addr] = hw.reg[addr],
                            !.last_ok[addr] = hw.reg[addr],
                            !.bus = Append(@, BusEntry("read", addr, hw.reg[addr], TRUE))],
          ret |-> hw.reg[addr]]

\* read_all: returns [hw, ret]
read_all(hw, addr, fail) ==
    IF ~is_valid[addr] THEN [hw |-> hw, ret |-> None]
    ELSE IF addr \in fail
         THEN [hw |-> [hw EXCEPT !.bus = Append(@, BusEntry("read", addr, None, FALSE))],
               ret |-> None]
         ELSE [hw |-> [hw EXCEPT !.value[addr] = hw.reg[addr],
                                 !.last_ok[addr] = hw.reg[addr],
                                 !.bus = Append(@, BusEntry("read", addr, hw.reg[addr], TRUE))],
               ret |-> hw.reg[addr]]

\* read_pin: returns [hw, ret]
read_pin(hw, addr, pin_number, fail) ==
    IF ~is_valid[addr] THEN [hw |-> hw, ret |-> FALSE]
    ELSE LET r == read_all(hw, addr, fail)
         IN  IF r.ret /= None
             THEN [hw |-> r.hw, ret |-> ~(Bit(r.hw.value[addr], pin_number) = 1)]
             ELSE [hw |-> r.hw, ret |-> FALSE]

\* write_all: returns hw
write_all(hw, addr, v, fail) ==
    IF ~is_valid[addr] THEN hw
    ELSE IF addr \in fail
         THEN [hw EXCEPT !.bus = Append(@, BusEntry("write", addr, v, FALSE))]
         ELSE [hw EXCEPT !.reg[addr] = v,
                         !.value[addr] = v,
                         !.last_ok[addr] = v,
                         !.bus = Append(@, BusEntry("write", addr, v, TRUE))]

\* write_pin as it would be if it started from a fresh read of the chip's register
write_pin_FromRegister(hw, addr, pin_number, state, fail) ==
    LET called == [hw EXCEPT !.calls = Append(@, [addr |-> addr, pin |-> pin_number,
                                                  state |-> state])]
    IN  IF ~is_valid[addr] THEN called
        ELSE LET v == IF ~state THEN ClearBit(called.reg[addr], pin_number)
                      ELSE SetBit(called.reg[addr], pin_number)
                 cached == [called EXCEPT !.value[addr] = v]
             IN  write_all(cached, addr, cached.value[addr], fail)

\* write_pin as it would be if it started from the power-on byte, not the cached one
write_pin_FromInitial(hw, addr, pin_number, state, fail) ==
    LET called == [hw EXCEPT !.calls = Append(@, [addr |-> addr, pin |-> pin_number,
                                                  state |-> state])]
    IN  IF ~is_valid[addr] THEN called
        ELSE LET v == IF ~state THEN ClearBit(InitialValue, pin_number)
                      ELSE SetBit(InitialValue, pin_number)
                 cached == [called EXCEPT !.value[addr] = v]
             IN  write_all(cached, addr, cached.value[addr], fail)

\* write_pin: returns hw.  The cache is changed before the bus write.
write_pin(hw, addr, pin_number, state, fail) ==
    LET called == [hw EXCEPT !.calls = Append(@, [addr |-> addr, pin |-> pin_number,
                                                  state |-> state])]
    IN  IF ~is_valid[addr] THEN called
        ELSE LET v == IF ~state THEN ClearBit(called.value[addr], pin_number)
                      ELSE SetBit(called.value[addr], pin_number)
                 cached == [called EXCEPT !.value[addr] = v]
             IN  write_all(cached, addr, cached.value[addr], fail)

----------------------------------------------------------------------------
(* The registries *)

\* outputs_map as it would be if both loops named the chip of outputs 1-8
outputs_map_OneChip ==
    LET low == {Str(i + 1) : i \in Pins}
        high == {Str(i + 9) : i \in Pins}
    IN  [k \in low \cup high |->
            IF k \in high
            THEN <<ADDR_OUTPUTS_1_8, CHOOSE i \in Pins : Str(i + 9) = k>>
            ELSE <<ADDR_OUTPUTS_1_8, CHOOSE i \in Pins : Str(i + 1) = k>>]

\* outputs_map: relay identifier -> <<address, pin>>
outputs_map ==
    LET low == {Str(i + 1) : i \in Pins}
        high == {Str(i + 9) : i \in Pins}
    IN  [k \in low \cup high |->
            IF k \in high
            THEN <<ADDR_OUTPUTS_9_16, CHOOSE i \in Pins : Str(i + 9) = k>>
            ELSE <<ADDR_OUTPUTS_1_8, CHOOSE i \in Pins : Str(i + 1) = k>>]

\* the order in which a loop over outputs_map visits its keys
RelayOrder == [n \in 1 .. 16 |-> Str(n)]

\* input_to_output_map as it would be with the two chips' loops exchanged
input_to_output_map_Swapped ==
    [a \in InputAddrs |->
        IF a = ADDR_INPUTS_1_8 THEN [i \in Pins |-> Str(i + 9)]
        ELSE [i \in Pins |-> Str(i + 1)]]

\* input_to_output_map: address -> pin -> relay identifier
input_to_output_map ==
    [a \in InputAddrs |->
        IF a = ADDR_INPUTS_1_8 THEN [i \in Pins |-> Str(i + 1)]
        ELSE [i \in Pins |-> Str(i + 9)]]

\* pcf_inputs of scan_keys, in the order its loops visit it
ScanOrder == <<ADDR_INPUTS_1_8, ADDR_INPUTS_9_16>>

----------------------------------------------------------------------------
(* HTTP handlers.  A request path is [has_query, query]; query is the list *)
(* query.split("&") with each element already split at "=".               *)

\* params.get(key) when the key is missing
Absent == "<None>"

NoResponse == [status |-> "", body |-> "", relays |-> <<>>, inputs |-> <<>>]
OkResponse == [status |-> "200 OK", body |-> "OK", relays |-> <<>>, inputs |-> <<>>]
ErrorResponse == [status |-> "500 Internal Server Error", body |-> "Error",
                  relays |-> <<>>, inputs |-> <<>>]
PageResponse == [status |-> "200 OK", body |-> "html", relays |-> <<>>, inputs |-> <<>>]

\* dict(param.split("=") for param in query.split("&")) raises unless every element is a pair
DictRaises(query) == \E k \in 1 .. Len(query) : Len(query[k]) /= 2

\* params.get(key): the value of the last pair with that key
Get(query, key) ==
    LET hits == {k \in 1 .. Len(query) : query[k][1] = key}
    IN  IF hits = {} THEN Absent
        ELSE query[CHOOSE k \in hits : \A j \in hits : j <= k][2]

\* WriteEvery as it would be if the loop covered the relays of the first chip only
RECURSIVE WriteEvery_FirstChip(_, _, _, _)
WriteEvery_FirstChip(hw, n, state_value, fail) ==
    IF n > 8 THEN hw
    ELSE LET out == outputs_map[RelayOrder[n]]
         IN  WriteEvery_FirstChip(write_pin(hw, out[1], out[2], state_value, fail),
                                  n + 1, state_value, fail)

\* WriteEvery as it would be if every pin were given the opposite of its cached bit
RECURSIVE WriteEvery_Toggle(_, _, _, _)
WriteEvery_Toggle(hw, n, state_value, fail) ==
    IF n > Len(RelayOrder) THEN hw
    ELSE LET out == outputs_map[RelayOrder[n]]
         IN  WriteEvery_Toggle(write_pin(hw, out[1], out[2],
                                         ~(Bit(hw.value[out[1]], out[2]) = 1), fail),
                               n + 1, state_value, fail)

\* for relay_num in outputs_map: pcf.write_pin(pin_num, state_value)
RECURSIVE WriteEvery(_, _, _, _)
WriteEvery(hw, n, state_value, fail) ==
    IF n > Len(RelayOrder) THEN hw
    ELSE LET out == outputs_map[RelayOrder[n]]
         IN  WriteEvery(write_pin(hw, out[1], out[2], state_value, fail),
                        n + 1, state_value, fail)

\* index_handler as it would be if outputs_map[relay_id] were looked up unguarded:
\* an unknown identifier raises KeyError and the request is answered with the error
index_handler_Unguarded(hw, path, fail) ==
    IF path.has_query
    THEN IF DictRaises(path.query) THEN [hw |-> hw, response |-> ErrorResponse]
         ELSE LET relay_id == Get(path.query, "relay")
                  state == Get(path.query, "state")
                  state_value == (state = "on")
              IN  IF relay_id = "all" /\ state \in {"on", "off"}
                  THEN [hw |-> WriteEvery(hw, 1, state_value, fail), response |-> OkResponse]
                  ELSE IF state \in {"on", "off"}
                  THEN IF relay_id \in DOMAIN outputs_map
                       THEN LET out == outputs_map[relay_id]
                            IN  [hw |-> write_pin(hw, out[1], out[2], state_value, fail),
                                 response |-> OkResponse]
                       ELSE [hw |-> hw, response |-> ErrorResponse]
                  ELSE [hw |-> hw, response |-> OkResponse]
    ELSE [hw |-> hw, response |-> PageResponse]

\* index_handler as it would be if the state were not checked to be "on" or "off":
\* anything but "on" switches off
index_handler_AnyState(hw, path, fail) ==
    IF path.has_query
    THEN IF DictRaises(path.query) THEN [hw |-> hw, response |-> ErrorResponse]
         ELSE LET relay_id == Get(path.query, "relay")
                  state == Get(path.query, "state")
                  state_value == (state = "on")
              IN  IF relay_id = "all"
                  THEN [hw |-> WriteEvery(hw, 1, state_value, fail), response |-> OkResponse]
                  ELSE IF relay_id \in DOMAIN outputs_map
                  THEN LET out == outputs_map[relay_id]
                       IN  [hw |-> write_pin(hw, out[1], out[2], state_value, fail),
                            response |-> OkResponse]
                  ELSE [hw |-> hw, response |-> OkResponse]
    ELSE [hw |-> hw, response |-> PageResponse]

\* index_handler: returns [hw, response]
index_handler(hw, path, fail) ==
    IF path.has_query
    THEN IF DictRaises(path.query) THEN [hw |-> hw, response |-> ErrorResponse]
         ELSE LET relay_id == Get(path.query, "relay")
                  state == Get(path.query, "state")
                  state_value == (state = "on")
              IN  IF relay_id = "all" /\ state \in {"on", "off"}
                  THEN [hw |-> WriteEvery(hw, 1, state_value, fail), response |-> OkResponse]
                  ELSE IF relay_id \in DOMAIN outputs_map /\ state \in {"on", "off"}
                  THEN LET out == outputs_map[relay_id]
                       IN  [hw |-> write_pin(hw, out[1], out[2], state_value, fail),
                            response |-> OkResponse]
                  ELSE [hw |-> hw, response |-> OkResponse]
    ELSE [hw |-> hw, response |-> PageResponse]

\* for i in range(8): inputs_states[f"X{i+base:02d}"] = pcf.read_pin(i); returns [hw, inputs]
RECURSIVE ReadPins(_, _, _, _, _, _)
ReadPins(hw, addr, base, i, inputs, fail) ==
    IF i > 7 THEN [hw |-> hw, inputs |-> inputs]
    ELSE LET r == read_pin(hw, addr, i, fail)
             key == XName(i + base)
         IN  ReadPins(r.hw, addr, base, i + 1,
                      [k \in DOMAIN inputs \cup {key} |->
                          IF k = key THEN r.ret ELSE inputs[k]],
                      fail)

\* RelaysState as it would be without the reversal of line 358
RelaysState_Unreversed(val) ==
    [relay_id \in DOMAIN outputs_map |->
        LET pcf == outputs_map[relay_id][1]
            pin_num == outputs_map[relay_id][2]
            state == ~(Bit(val[pcf], pin_num) = 1)
        IN  IF state THEN "on" ELSE "off"]

\* relays_state of api_state_handler, from the cached bytes
RelaysState(val) ==
    [relay_id \in DOMAIN outputs_map |->
        LET pcf == outputs_map[relay_id][1]
            pin_num == outputs_map[relay_id][2]
            state == ~(Bit(val[pcf], pin_num) = 1)
        IN  IF state THEN "off" ELSE "on"]

\* api_state_handler: returns [hw, response]
api_state_handler(hw, fail) ==
    LET none == [k \in {} |-> FALSE]
        a == IF is_valid[ADDR_INPUTS_1_8]
             THEN ReadPins(hw, ADDR_INPUTS_1_8, 1, 0, none, fail)
             ELSE [hw |-> hw, inputs |-> none]
        b == IF is_valid[ADDR_INPUTS_9_16]
             THEN ReadPins(a.hw, ADDR_INPUTS_9_16, 9, 0, a.inputs, fail)
             ELSE a
    IN  [hw |-> b.hw,
         response |-> [status |-> "200 OK", body |-> "json",
                       relays |-> RelaysState(b.hw.value), inputs |-> b.inputs]]

----------------------------------------------------------------------------
(* scan_keys *)

\* lines 399-404: toggle the relay of input pin i of the chip at addr
Fire(hw, addr, i, fail) ==
    LET relay_id == input_to_output_map[addr][i]
        pcf_out == outputs_map[relay_id][1]
        pin_num == outputs_map[relay_id][2]
        current_relay_state == ~(Bit(hw.value[pcf_out], pin_num) = 1)
        new_relay_state == ~current_relay_state
    IN  write_pin(hw, pcf_out, pin_num, new_relay_state, fail)

\* Pressed as it would be if the level were tested, not the change
Pressed_Level(prev, current_state, i) == ~(Bit(current_state, i) = 1)

\* lines 397-398: pin i changed and is now low
Pressed(prev, current_state, i) ==
    /\ Bit(Xor(prev, current_state), i) = 1
    /\ ~(Bit(current_state, i) = 1)

\* for i in range(8): ...
RECURSIVE ScanPins(_, _, _, _, _, _)
ScanPins(hw, addr, prev, current_state, i, fail) ==
    IF i > 7 THEN hw
    ELSE ScanPins(IF Pressed(prev, current_state, i) THEN Fire(hw, addr, i, fail) ELSE hw,
                  addr, prev, current_state, i + 1, fail)

\* ScanFrom as it would be if the diff were taken against the chip's cached byte
RECURSIVE ScanFrom_FromCache(_, _, _)
ScanFrom_FromCache(st, k, fail) ==
    IF k > Len(ScanOrder) THEN st
    ELSE LET addr == ScanOrder[k]
         IN  IF ~is_valid[addr] THEN ScanFrom_FromCache(st, k + 1, fail)
             ELSE LET r == read_all(st.hw, addr, fail)
                  IN  IF r.ret = None THEN ScanFrom_FromCache([st EXCEPT !.hw = r.hw], k + 1, fail)
                      ELSE IF st.prev[addr] = None THEN [st EXCEPT !.hw = r.hw]
                      ELSE ScanFrom_FromCache(
                               [hw |-> ScanPins(r.hw, addr, st.hw.value[addr], r.ret, 0, fail),
                                prev |-> [st.prev EXCEPT ![addr] = r.ret]],
                               k + 1, fail)

\* ScanFrom as it would be if a failed read reset the chip's snapshot to all-high
RECURSIVE ScanFrom_DropSnapshot(_, _, _)
ScanFrom_DropSnapshot(st, k, fail) ==
    IF k > Len(ScanOrder) THEN st
    ELSE LET addr == ScanOrder[k]
         IN  IF ~is_valid[addr] THEN ScanFrom_DropSnapshot(st, k + 1, fail)
             ELSE LET r == read_all(st.hw, addr, fail)
                  IN  IF r.ret = None
                      THEN ScanFrom_DropSnapshot([hw |-> r.hw,
                                                  prev |-> [st.prev EXCEPT ![addr] = InitialValue]],
                                                 k + 1, fail)
                      ELSE IF st.prev[addr] = None THEN [st EXCEPT !.hw = r.hw]
                      ELSE ScanFrom_DropSnapshot(
                               [hw |-> ScanPins(r.hw, addr, st.prev[addr], r.ret, 0, fail),
                                prev |-> [st.prev EXCEPT ![addr] = r.ret]],
                               k + 1, fail)

\* the body of the try of one pass, from the k-th chip on; st is [hw, prev].
\* None ^ int raises TypeError, which ends the pass (line 407).
RECURSIVE ScanFrom(_, _, _)
ScanFrom(st, k, fail) ==
    IF k > Len(ScanOrder) THEN st
    ELSE LET addr == ScanOrder[k]
         IN  IF ~is_valid[addr] THEN ScanFrom(st, k + 1, fail)
             ELSE LET r == read_all(st.hw, addr, fail)
                  IN  IF r.ret = None THEN ScanFrom([st EXCEPT !.hw = r.hw], k + 1, fail)
                      ELSE IF st.prev[addr] = None THEN [st EXCEPT !.hw = r.hw]
                      ELSE ScanFrom([hw |-> ScanPins(r.hw, addr, st.prev[addr], r.ret, 0, fail),
                                     prev |-> [st.prev EXCEPT ![addr] = r.ret]],
                                    k + 1, fail)

\* line 385: prev_state = {addr: pcf.read_all() ... if pcf.is_valid}; st is [hw, prev]
RECURSIVE Snapshot(_, _, _)
Snapshot(st, k, fail) ==
    IF k > Len(ScanOrder) THEN st
    ELSE LET addr == ScanOrder[k]
         IN  IF ~is_valid[addr] THEN Snapshot(st, k + 1, fail)
             ELSE LET r == read_all(st.hw, addr, fail)
                  IN  Snapshot([hw |-> r.hw,
                                prev |-> [a \in DOMAIN st.prev \cup {addr} |->
                                             IF a = addr THEN r.ret ELSE st.prev[a]]],
                               k + 1, fail)

----------------------------------------------------------------------------
(* Inputs of the model *)

\* which chips answered the probe of PCF8574.__init__
ValidConfigs == {c \in [Addrs -> BOOLEAN] : Cardinality({a \in Addrs : ~c[a]}) <= MaxInvalid}

\* the chips whose bus transactions fail during one step
FailSets == {f \in SUBSET Addrs : Cardinality(f) <= MaxFailing}

\* pin levels of an input chip: its lowest k buttons held down (low)
PinLevels(a) ==
    {255 - (Pow2(k) - 1) :
        k \in 0 .. (IF a = ADDR_INPUTS_1_8 THEN MaxPressed ELSE MaxPressedHigh)}

\* cached bytes a chip may hold when a request arrives or a device operation starts
CacheBytes == {0, 165, 255}

RelayTokens(n) == {Str(k) : k \in 1 .. n} \cup {Str(8 + k) : k \in 1 .. n} \cup {"all", "17"}
StateTokens == {"on", "off", "toggle"}

\* query strings: relay=R&state=S, relay=R, state=S&relay=R, and "relay" with no "="
QueriesOf(relays) ==
    {<<<<"relay", r>>, <<"state", s>>>> : r \in relays, s \in StateTokens}
        \cup {<<<<"relay", r>>>> : r \in relays}
        \cup {<<<<"relay">>>>}

\* the requests made of the running system: relay=R&state=on|off
LoopQueries ==
    {<<<<"relay", r>>, <<"state", s>>>> :
        r \in RelayTokens(MaxLoopRelay) \ {"17"}, s \in {"on", "off"}}
Queries == QueriesOf(RelayTokens(8))

----------------------------------------------------------------------------
(* The running program *)

HW == [value |-> value, reg |-> reg, last_ok |-> last_ok, bus |-> <<>>, calls |-> <<>>]

\* the mirrors, the chips and the logs after a step that ended in hw
Becomes(hw) ==
    /\ value' = hw.value
    /\ reg' = hw.reg
    /\ last_ok' = hw.last_ok
    /\ bus' = hw.bus
    /\ calls' = hw.calls

\* the environment lets the chips of `fail` fail in this step
Faulty(fail) ==
    /\ fail /= {} => faults < MaxFaults
    /\ faults' = IF fail = {} THEN faults ELSE faults + 1

\* one more request is handled
Requested ==
    /\ requests < MaxRequests
    /\ requests' = requests + 1

\* the last successful read of each input chip in a log of scan_keys
SeenAfter(old, log) ==
    [a \in InputAddrs |->
        LET hits == {k \in 1 .. Len(log) : log[k].op = "read" /\ log[k].addr = a /\ log[k].ok}
        IN  IF hits = {} THEN old[a]
            ELSE log[CHOOSE k \in hits : \A j \in hits : j <= k].byte]

\* the reads of chip a in a log of scan_keys, folded into its history: "failed" when the
\* last read failed, "recovered" when it succeeded and the one before it failed, else "no"
RECURSIVE MissedFrom(_, _, _, _)
MissedFrom(was, log, a, k) ==
    IF k > Len(log) THEN was
    ELSE IF log[k].op = "read" /\ log[k].addr = a
         THEN MissedFrom(IF ~log[k].ok THEN "failed"
                         ELSE IF was = "failed" THEN "recovered" ELSE "no",
                         log, a, k + 1)
         ELSE MissedFrom(was, log, a, k + 1)

MissedAfter(old, log) == [a \in InputAddrs |-> MissedFrom(old[a], log, a, 1)]

Init ==
    /\ is_valid \in ValidConfigs
    /\ value = [a \in Addrs |-> InitialValue]
    /\ \E low \in PinLevels(ADDR_INPUTS_1_8), high \in PinLevels(ADDR_INPUTS_9_16) :
          reg = [a \in Addrs |-> IF a = ADDR_INPUTS_1_8 THEN low
                                 ELSE IF a = ADDR_INPUTS_9_16 THEN high
                                 ELSE InitialValue]
    /\ last_ok = [a \in Addrs |-> InitialValue]
    /\ prev_state = [a \in {} |-> None]
    /\ seen = [a \in InputAddrs |-> None]
    /\ missed = [a \in InputAddrs |-> "no"]
    /\ pc = "main"
    /\ last = [op |-> "construct"]
    /\ calls = <<>>
    /\ bus = <<>>
    /\ response = NoResponse
    /\ faults = 0
    /\ requests = 0

\* lines 416-417: if pcf.is_valid: pcf.write_all(0xFF), for both output chips
InitRelays(hw, fail) ==
    LET a == IF is_valid[ADDR_OUTPUTS_1_8]
             THEN write_all(hw, ADDR_OUTPUTS_1_8, 255, fail) ELSE hw
    IN  IF is_valid[ADDR_OUTPUTS_9_16]
        THEN write_all(a, ADDR_OUTPUTS_9_16, 255, fail) ELSE a

\* __main__ up to the start of the tasks
Main ==
    /\ pc = "main"
    /\ \E fail \in FailSets :
          /\ Faulty(fail)
          /\ \E hw \in {InitRelays(HW, fail)} : Becomes(hw)
          /\ last' = [op |-> "main"]
    /\ pc' = "start"
    /\ response' = NoResponse
    /\ UNCHANGED <<is_valid, prev_state, seen, missed, requests>>

\* scan_keys from its start to its first sleep: the snapshot and the first pass
ScanStart ==
    /\ pc = "start"
    /\ \E fail0 \in SUBSET InputAddrs, fail \in FailSets :
          /\ Faulty(fail0 \cup fail)
          /\ \E st \in {ScanFrom(Snapshot([hw |-> HW, prev |-> prev_state], 1, fail0), 1, fail)} :
                /\ Becomes(st.hw)
                /\ prev_state' = st.prev
                /\ seen' = SeenAfter(seen, st.hw.bus)
                /\ missed' = MissedAfter(missed, st.hw.bus)
          /\ last' = [op |-> "scan_start"]
    /\ pc' = "loop"
    /\ response' = NoResponse
    /\ UNCHANGED <<is_valid, requests>>

\* scan_keys from one sleep to the next: one pass
ScanPass ==
    /\ pc = "loop"
    /\ \E fail \in FailSets :
          /\ Faulty(fail)
          /\ \E st \in {ScanFrom([hw |-> HW, prev |-> prev_state], 1, fail)} :
                /\ Becomes(st.hw)
                /\ prev_state' = st.prev
                /\ seen' = SeenAfter(seen, st.hw.bus)
                /\ missed' = MissedAfter(missed, st.hw.bus)
          /\ last' = [op |-> "scan"]
    /\ response' = NoResponse
    /\ UNCHANGED <<is_valid, pc, requests>>

\* a request for /?relay=..&state=..
Control ==
    /\ pc = "loop"
    /\ \E query \in LoopQueries, fail \in FailSets :
          /\ Faulty(fail)
          /\ \E r \in {index_handler(HW, [has_query |-> TRUE, query |-> query], fail)} :
                /\ Becomes(r.hw)
                /\ response' = r.response
          /\ last' = [op |-> "control", query |-> query]
    /\ Requested
    /\ UNCHANGED <<is_valid, prev_state, seen, missed, pc>>

\* a request for /
Page ==
    /\ pc = "loop"
    /\ \E r \in {index_handler(HW, [has_query |-> FALSE, query |-> <<>>], {})} :
          /\ Becomes(r.hw)
          /\ response' = r.response
    /\ last' = [op |-> "page"]
    /\ Requested
    /\ UNCHANGED <<is_valid, prev_state, seen, missed, pc, faults>>

\* a request for /api/state
StateQuery ==
    /\ pc = "loop"
    /\ \E fail \in FailSets :
          /\ Faulty(fail)
          /\ \E r \in {api_state_handler(HW, fail)} :
                /\ Becomes(r.hw)
                /\ response' = r.response
          /\ last' = [op |-> "state"]
    /\ Requested
    /\ UNCHANGED <<is_valid, prev_state, seen, missed, pc>>

\* the environment: the buttons of one input chip change
PinsChange ==
    /\ pc = "loop"
    /\ \E a \in InputAddrs :
       \E b \in PinLevels(a) :
          /\ b /= reg[a]
          /\ reg' = [reg EXCEPT ![a] = b]
    /\ last' = [op |-> "pins"]
    /\ calls' = <<>>
    /\ bus' = <<>>
    /\ response' = NoResponse
    /\ UNCHANGED <<is_valid, value, last_ok, prev_state, seen, missed, pc, faults, requests>>

Next == Main \/ ScanStart \/ ScanPass \/ Control \/ Page \/ StateQuery \/ PinsChange

Spec == Init /\ [][Next]_vars

----------------------------------------------------------------------------
(* One control request and the state query after it, from any caches of    *)
(* the output chips, for every relay identifier.                           *)

InitCtl ==
    /\ is_valid \in ValidConfigs
    /\ \E low \in CacheBytes, high \in CacheBytes :
          /\ value = [a \in Addrs |-> IF a = ADDR_OUTPUTS_1_8 /\ is_valid[a] THEN low
                                     ELSE IF a = ADDR_OUTPUTS_9_16 /\ is_valid[a] THEN high
                                     ELSE InitialValue]
          /\ reg = value
          /\ last_ok = value
    /\ prev_state = [a \in {b \in InputAddrs : is_valid[b]} |-> InitialValue]
    /\ seen = [a \in InputAddrs |-> IF is_valid[a] THEN InitialValue ELSE None]
    /\ missed = [a \in InputAddrs |-> "no"]
    /\ pc = "request"
    /\ last = [op |-> "idle"]
    /\ calls = <<>>
    /\ bus = <<>>
    /\ response = NoResponse
    /\ faults = 0
    /\ requests = 0

\* a request for /?<query>, for every query of Queries
CtlControl ==
    /\ pc = "request"
    /\ \E query \in Queries, fail \in FailSets :
          /\ \E r \in {index_handler(HW, [has_query |-> TRUE, query |-> query], fail)} :
                /\ Becomes(r.hw)
                /\ response' = r.response
          /\ last' = [op |-> "control", query |-> query]
    /\ pc' = "responded"
    /\ UNCHANGED <<is_valid, prev_state, seen, missed, faults, requests>>

\* the request for /api/state that follows it
CtlState ==
    /\ pc = "responded"
    /\ \E fail \in FailSets :
          /\ \E r \in {api_state_handler(HW, fail)} :
                /\ Becomes(r.hw)
                /\ response' = r.response
          /\ last' = [op |-> "state", after |-> last, written |-> bus]
    /\ pc' = "reported"
    /\ UNCHANGED <<is_valid, prev_state, seen, missed, faults, requests>>

\* the same control request, made a second time after the state query
CtlRepeat ==
    /\ pc = "reported"
    /\ last.after.query \in LoopQueries
    /\ \E fail \in FailSets :
          /\ \E r \in {index_handler(HW, [has_query |-> TRUE, query |-> last.after.query], fail)} :
                /\ Becomes(r.hw)
                /\ response' = r.response
          /\ last' = [op |-> "control", query |-> last.after.query]
    /\ pc' = "repeated"
    /\ UNCHANGED <<is_valid, prev_state, seen, missed, faults, requests>>

\* a second request for /api/state: right after the first, or after the repeated control
CtlStateAgain ==
    /\ pc \in {"reported", "repeated"}
    /\ \E fail \in FailSets :
          /\ \E r \in {api_state_handler(HW, fail)} :
                /\ Becomes(r.hw)
                /\ response' = r.response
          /\ last' = [op |-> "state",
                      after |-> IF last.op = "control" THEN last ELSE [op |-> "state"],
                      written |-> bus]
    /\ pc' = IF pc = "reported" THEN "requeried" ELSE "rereported"
    /\ UNCHANGED <<is_valid, prev_state, seen, missed, faults, requests>>

NextCtl == CtlControl \/ CtlState \/ CtlRepeat \/ CtlStateAgain

SpecCtl == InitCtl /\ [][NextCtl]_vars

----------------------------------------------------------------------------
(* The operations of one PCF8574, from any cache and any chip content.     *)

InitDev ==
    /\ is_valid \in ValidConfigs
    /\ \E v \in CacheBytes, r \in CacheBytes :
          /\ value = [a \in Addrs |-> IF is_valid[a] THEN v ELSE InitialValue]
          /\ reg = [a \in Addrs |-> r]
          /\ last_ok = [a \in Addrs |-> IF ~is_valid[a] THEN InitialValue
                                       ELSE IF a \in InputAddrs THEN v ELSE r]
    /\ prev_state = [a \in {b \in InputAddrs : is_valid[b]} |-> InitialValue]
    /\ seen = [a \in InputAddrs |-> IF is_valid[a] THEN InitialValue ELSE None]
    /\ missed = [a \in InputAddrs |-> "no"]
    /\ pc = "device"
    /\ last = [op |-> "idle"]
    /\ calls = <<>>
    /\ bus = <<>>
    /\ response = NoResponse
    /\ faults = 0
    /\ requests = 0

\* pcf.write_pin(pin, state)
DevWritePin ==
    /\ pc = "device"
    /\ \E addr \in Addrs, pin \in Pins, state \in BOOLEAN, fail \in FailSets :
          /\ \E hw \in {write_pin(HW, addr, pin, state, fail)} : Becomes(hw)
          /\ last' = [op |-> "write_pin", addr |-> addr, pin |-> pin, state |-> state]
    /\ pc' = "written"
    /\ UNCHANGED <<is_valid, prev_state, seen, missed, response, faults, requests>>

\* pcf.read_pin(pin) on the chip just written
DevReadPin ==
    /\ pc = "written"
    /\ \E pin \in Pins, fail \in FailSets :
          /\ \E r \in {read_pin(HW, last.addr, pin, fail)} :
                /\ Becomes(r.hw)
                /\ last' = [op |-> "read_pin", addr |-> last.addr, pin |-> pin,
                            ret |-> r.ret, after |-> last, written |-> bus]
    /\ pc' = "read"
    /\ UNCHANGED <<is_valid, prev_state, seen, missed, response, faults, requests>>

\* pcf.read_all()
DevReadAll ==
    /\ pc = "device"
    /\ \E addr \in Addrs, fail \in FailSets :
          /\ \E r \in {read_all(HW, addr, fail)} :
                /\ Becomes(r.hw)
                /\ last' = [op |-> "read_all", addr |-> addr, ret |-> r.ret]
    /\ pc' = "done"
    /\ UNCHANGED <<is_valid, prev_state, seen, missed, response, faults, requests>>

\* pcf.write_all(byte)
DevWriteAll ==
    /\ pc = "device"
    /\ \E addr \in Addrs, byte \in CacheBytes, fail \in FailSets :
          /\ \E hw \in {write_all(HW, addr, byte, fail)} : Becomes(hw)
          /\ last' = [op |-> "write_all", addr |-> addr, byte |-> byte]
    /\ pc' = "done"
    /\ UNCHANGED <<is_valid, prev_state, seen, missed, response, faults, requests>>

\* a request for /?relay=..&state=.. made of the chips as they are
DevControl ==
    /\ pc = "device"
    /\ \E query \in LoopQueries, fail \in FailSets :
          /\ \E r \in {index_handler(HW, [has_query |-> TRUE, query |-> query], fail)} :
                /\ Becomes(r.hw)
                /\ response' = r.response
          /\ last' = [op |-> "control", query |-> query]
    /\ pc' = "done"
    /\ UNCHANGED <<is_valid, prev_state, seen, missed, faults, requests>>

\* a request for /api/state made of the chips as they are
DevState ==
    /\ pc = "device"
    /\ \E fail \in FailSets :
          /\ \E r \in {api_state_handler(HW, fail)} :
                /\ Becomes(r.hw)
                /\ response' = r.response
          /\ last' = [op |-> "state"]
    /\ pc' = "done"
    /\ UNCHANGED <<is_valid, prev_state, seen, missed, faults, requests>>

\* one pass of scan_keys over the chips as they are
DevScan ==
    /\ pc = "device"
    /\ \E fail \in FailSets :
          /\ \E st \in {ScanFrom([hw |-> HW, prev |-> prev_state], 1, fail)} :
                /\ Becomes(st.hw)
                /\ prev_state' = st.prev
                /\ seen' = SeenAfter(seen, st.hw.bus)
                /\ missed' = MissedAfter(missed, st.hw.bus)
          /\ last' = [op |-> "scan"]
    /\ pc' = "done"
    /\ UNCHANGED <<is_valid, response, faults, requests>>

NextDev ==
    \/ DevWritePin \/ DevReadPin \/ DevReadAll \/ DevWriteAll
    \/ DevControl \/ DevState \/ DevScan

SpecDev == InitDev /\ [][NextDev]_vars

----------------------------------------------------------------------------
(* Vocabulary of the properties *)

\* no bus transaction of a log failed
NoBusFailure(log) == \A k \in 1 .. Len(log) : log[k].ok

\* a log holds a successful read of the chip at a
ReadOk(log, a) == \E k \in 1 .. Len(log) : log[k].op = "read" /\ log[k].addr = a /\ log[k].ok

\* the number of write_pin calls of a log that name the output pin of a relay
CallsFor(log, relay_id) ==
    Cardinality({k \in 1 .. Len(log) :
                    /\ log[k].addr = outputs_map[relay_id][1]
                    /\ log[k].pin = outputs_map[relay_id][2]})

\* the cached output bit of a relay
RelayBit(val, relay_id) == Bit(val[outputs_map[relay_id][1]], outputs_map[relay_id][2])

\* the step is a pass of scan_keys, its first one excluded
IsScanPass == last'.op = "scan"

\* the step is a pass of scan_keys
IsScan == last'.op \in {"scan", "scan_start"}

\* the query of a control request is relay=r&state=s
Names(step, r, s) ==
    /\ step.op = "control"
    /\ ~DictRaises(step.query)
    /\ Get(step.query, "relay") = r
    /\ Get(step.query, "state") = s

----------------------------------------------------------------------------
(* C1 *)

\* C1: in a pass of scan_keys without bus failure, every pin of a valid input chip
\* that is 1 in the previous snapshot and 0 in the successful read has the cached
\* output bit of its relay flipped by the pass.
C1_ScanFlipsRelayBit ==
    [][(IsScanPass /\ NoBusFailure(bus')) =>
          \A a \in DOMAIN prev_state : \A i \in Pins :
              (/\ prev_state[a] /= None
               /\ ReadOk(bus', a)
               /\ Bit(prev_state[a], i) = 1
               /\ Bit(reg[a], i) = 0
               /\ is_valid[outputs_map[input_to_output_map[a][i]][1]])
              => RelayBit(value', input_to_output_map[a][i])
                     /= RelayBit(value, input_to_output_map[a][i])]_vars

----------------------------------------------------------------------------
(* C2 *)

\* C2: for an input chip whose snapshot read succeeded, a pass of scan_keys calls
\* write_pin for the relay of pin i exactly once when its read succeeds and pin i
\* was 1 in the previous successful read and is 0 now, and not at all otherwise
\* (the pin stays 0, stays 1, goes 0 -> 1, or the read fails or is not made).
C2_EdgeNotLevel ==
    [][IsScan =>
          \A a \in DOMAIN prev_state' : \A i \in Pins :
              prev_state'[a] /= None =>
                  CallsFor(calls', input_to_output_map[a][i])
                      = IF /\ ReadOk(bus', a)
                           /\ seen[a] /= None
                           /\ Bit(seen[a], i) = 1
                           /\ Bit(reg[a], i) = 0
                        THEN 1 ELSE 0]_vars

\* the reads 0xFE then 0xFC of the chip of inputs 1-8: one call, for relay 2, none for relay 1
C2_Witness ==
    /\ last.op = "scan"
    /\ ADDR_INPUTS_1_8 \in DOMAIN prev_state
    /\ prev_state[ADDR_INPUTS_1_8] = 252
    /\ CallsFor(calls, "2") = 1
    /\ CallsFor(calls, "1") = 0

----------------------------------------------------------------------------
(* C3, C4, C8, C9: one control request, then the state query *)

\* C3: after a control request relay=r&state=s (r in "1".."16", s on or off) on a valid
\* chip whose bus write did not fail, the state query that follows reports relays[r] = s.
C3_ControlThenQuery ==
    pc = "reported" =>
        \A r \in DOMAIN outputs_map : \A s \in {"on", "off"} :
            (/\ Names(last.after, r, s)
             /\ is_valid[outputs_map[r][1]]
             /\ NoBusFailure(last.written))
            => response.relays[r] = s

\* relay 3 switched off from a cache in which it and its neighbour were on
C3_Witness ==
    /\ pc = "reported"
    /\ Names(last.after, "3", "off")
    /\ NoBusFailure(last.written)
    /\ response.relays["3"] = "off"
    /\ response.relays["4"] = "on"

\* C4: after a control request relay=all&state=s (s on or off) with both output chips
\* valid and no failed bus write, the state query that follows reports every relay as s.
C4_AllThenQuery ==
    pc = "reported" =>
        \A s \in {"on", "off"} :
            (/\ Names(last.after, "all", s)
             /\ \A a \in OutputAddrs : is_valid[a]
             /\ NoBusFailure(last.written))
            => \A r \in DOMAIN outputs_map : response.relays[r] = s

\* all relays switched off, sixteen writes made, all sixteen reported off
C4_Witness ==
    /\ pc = "reported"
    /\ Names(last.after, "all", "off")
    /\ Len(last.written) = 16
    /\ NoBusFailure(last.written)
    /\ \A r \in DOMAIN outputs_map : response.relays[r] = "off"

\* the request names a relay that is neither "all" nor a key of outputs_map
UnknownRelay(step) ==
    /\ step.op = "control"
    /\ ~DictRaises(step.query)
    /\ Get(step.query, "relay") \notin DOMAIN outputs_map \cup {"all", Absent}

C9_BadStateIsNoOp ==
    [][(/\ pc = "request" /\ pc' = "responded"
        /\ ~DictRaises(last'.query)
        /\ Get(last'.query, "state") \notin {"on", "off"}) =>
          /\ response' = OkResponse
          /\ \A k \in 1 .. Len(bus') : bus'[k].op /= "write"
          /\ value' = value]_vars

\* relay=all&state=toggle was acknowledged while relays of both chips are not all alike
C9_Witness ==
    /\ pc = "responded"
    /\ Names(last, "all", "toggle")
    /\ response = OkResponse
    /\ value[ADDR_OUTPUTS_1_8] = 165
    /\ value[ADDR_OUTPUTS_9_16] = 0

----------------------------------------------------------------------------
(* C5 *)

\* C5: on a valid chip and without bus failure, write_pin(n, True) followed by
\* read_pin(n) returns True.
C5_WriteTrueReadsTrue ==
    (/\ pc = "read"
     /\ last.after.state
     /\ last.pin = last.after.pin
     /\ is_valid[last.addr]
     /\ NoBusFailure(last.written)
     /\ NoBusFailure(bus))
    => last.ret = TRUE

----------------------------------------------------------------------------
(* C6, C7, C10 *)

\* C6: the state query reports a relay "on" exactly when its cached output bit is 0
\* and "off" exactly when it is 1.
C6_OnIffBitClear ==
    response.body = "json" =>
        \A r \in DOMAIN outputs_map :
            /\ response.relays[r] = "on" <=> RelayBit(value, r) = 0
            /\ response.relays[r] = "off" <=> RelayBit(value, r) = 1

\* C7: the cached byte of every chip is the byte of the last successful bus read or
\* write on that chip, or the initial 0xFF.
C7_CacheIsLastSuccess == \A a \in Addrs : value[a] = last_ok[a]

\* C10: whatever read failed before, when a pass of scan_keys reads an input chip
\* successfully and a pin that was 1 in the previous successful read is 0, the pass
\* calls write_pin for the relay of that pin.
C10_EdgeFiresAfterBadRead ==
    [][IsScanPass =>
          \A a \in InputAddrs : \A i \in Pins :
              (/\ is_valid[a]
               /\ ReadOk(bus', a)
               /\ seen[a] /= None
               /\ Bit(seen[a], i) = 1
               /\ Bit(reg[a], i) = 0)
              => CallsFor(calls', input_to_output_map[a][i]) >= 1]_vars

----------------------------------------------------------------------------
(* C11, C17: read failures in scan_keys *)

\* a log holds a read of the chip at a, failed or not
ReadTried(log, a) == \E k \in 1 .. Len(log) : log[k].op = "read" /\ log[k].addr = a

\* a log holds a failed read of the chip at a
ReadFailed(log, a) == \E k \in 1 .. Len(log) : log[k].op = "read" /\ log[k].addr = a /\ ~log[k].ok

\* C11: in every pass of scan_keys, whatever happens to the other input chip, an input
\* chip with a snapshot is read, and when the read succeeds it is diffed against its
\* snapshot, its falling edges call write_pin and its snapshot becomes the read byte.
C11_OtherChipStillScanned ==
    [][IsScanPass =>
          \A a \in DOMAIN prev_state :
              prev_state[a] /= None =>
                  /\ ReadTried(bus', a)
                  /\ ReadOk(bus', a) =>
                        /\ prev_state'[a] = reg[a]
                        /\ \A i \in Pins :
                              (Bit(prev_state[a], i) = 1 /\ Bit(reg[a], i) = 0)
                              => CallsFor(calls', input_to_output_map[a][i]) = 1]_vars

\* C17: for an input chip with a snapshot, a pass of scan_keys whose read_all fails keeps
\* the snapshot and calls no write_pin for the chip; the first pass whose read succeeds
\* after failed ones calls write_pin exactly once for each pin that was 1 in the last
\* successful read and is 0 now, and not for a pin that was 0 already.
C17_FailedReadKeepsSnapshot ==
    [][IsScanPass =>
          \A a \in DOMAIN prev_state :
              prev_state[a] /= None =>
                  /\ ReadFailed(bus', a) =>
                        /\ prev_state'[a] = prev_state[a]
                        /\ \A i \in Pins : CallsFor(calls', input_to_output_map[a][i]) = 0
                  /\ (missed[a] = "failed" /\ ReadOk(bus', a)) =>
                        \A i \in Pins :
                            CallsFor(calls', input_to_output_map[a][i])
                                = IF Bit(seen[a], i) = 1 /\ Bit(reg[a], i) = 0 THEN 1 ELSE 0]_vars

\* snapshot 0xFE, a failed read, then 0xFC read: one call for relay 2, none for relay 1
C17_Witness ==
    /\ last.op = "scan"
    /\ missed[ADDR_INPUTS_1_8] = "recovered"
    /\ ADDR_INPUTS_1_8 \in DOMAIN prev_state
    /\ prev_state[ADDR_INPUTS_1_8] = 252
    /\ CallsFor(calls, "2") = 1
    /\ CallsFor(calls, "1") = 0

----------------------------------------------------------------------------
(* C14: control requests and passes of scan_keys interleaved *)

\* the calls of a log that name pin p of the chip at a
CallsOn(log, a, p) == {k \in 1 .. Len(log) : log[k].addr = a /\ log[k].pin = p}

\* the state given by the last of a non-empty set of calls of a log
LastState(log, hits) == log[CHOOSE k \in hits : \A j \in hits : j <= k].state

\* C14: in every step of the running program without bus failure, taken from a state
\* where a valid output chip's cached byte equals its register, every bit of the cached
\* byte ends as the last write_pin call of the step that named it set it, or as it was
\* when none did, and the cached byte still equals the register.
C14_NoLostUpdate ==
    [][\A a \in OutputAddrs :
          (is_valid[a] /\ value[a] = reg[a] /\ NoBusFailure(bus')) =>
              /\ value'[a] = reg'[a]
              /\ \A p \in Pins :
                    Bit(value'[a], p)
                        = IF CallsOn(calls', a, p) = {} THEN Bit(value[a], p)
                          ELSE IF LastState(calls', CallsOn(calls', a, p)) THEN 1 ELSE 0]_vars

\* relay=1&state=off earlier, then a pass that called write_pin(1, True): bit 0 stays 0
C14_Witness ==
    /\ last.op = "scan"
    /\ faults = 0
    /\ requests > 0
    /\ calls = <<[addr |-> ADDR_OUTPUTS_1_8, pin |-> 1, state |-> TRUE]>>
    /\ value[ADDR_OUTPUTS_1_8] = 254
    /\ reg[ADDR_OUTPUTS_1_8] = 254

----------------------------------------------------------------------------
(* C19: the state query between passes of scan_keys *)

\* C19: a state query makes only reads of the input chips on the bus, calls no write_pin
\* and leaves the output chips' cached bytes and registers and the snapshots of scan_keys
\* as they were; and the pass of scan_keys right after a state query calls write_pin
\* exactly once for each pin of a successfully read chip that is 1 in the snapshot and
\* 0 now, and not at all for its other pins.
C19_StateQueryLeavesScanAlone ==
    [][/\ last'.op = "state" =>
             /\ \A k \in 1 .. Len(bus') : bus'[k].op = "read" /\ bus'[k].addr \in InputAddrs
             /\ calls' = <<>>
             /\ \A a \in OutputAddrs : value'[a] = value[a] /\ reg'[a] = reg[a]
             /\ prev_state' = prev_state
       /\ (last.op = "state" /\ IsScanPass) =>
             \A a \in DOMAIN prev_state : \A i \in Pins :
                 (prev_state[a] /= None /\ ReadOk(bus', a)) =>
                     CallsFor(calls', input_to_output_map[a][i])
                         = IF Bit(prev_state[a], i) = 1 /\ Bit(reg[a], i) = 0
                           THEN 1 ELSE 0]_vars

\* button 1 went down, and the state query read it into the chip's cached byte before
\* scan_keys did: the snapshot is still 0xFF
C19_Witness ==
    /\ last.op = "state"
    /\ ADDR_INPUTS_1_8 \in DOMAIN prev_state
    /\ prev_state[ADDR_INPUTS_1_8] = 255
    /\ value[ADDR_INPUTS_1_8] = 254
    /\ reg[ADDR_INPUTS_1_8] = 254

----------------------------------------------------------------------------
(* C20: the state query after startup *)

\* C20: the state query handled right after startup (write_all(0xFF) on each valid
\* output chip, then the start of scan_keys), before any control request and any
\* button edge, reports every relay "1" .. "16" as "off".
C20_StartupReportsOff ==
    [][(last.op = "scan_start" /\ last'.op = "state") =>
          \A r \in DOMAIN outputs_map : response'.relays[r] = "off"]_vars

----------------------------------------------------------------------------
(* C15, C16: the two registries *)

\* the relay identifiers, as the requests spell them
RelayNames == <<"1", "2", "3", "4", "5", "6", "7", "8",
                "9", "10", "11", "12", "13", "14", "15", "16">>

\* C15: outputs_map has exactly the keys "1" .. "16", no two of them name the same
\* (chip, pin), "1" .. "8" are pins 0 .. 7 of the chip at 0x24 and "9" .. "16" are
\* pins 0 .. 7 of the chip at 0x25; so a control request for one relay, on or off,
\* calls write_pin once, on that relay's own chip and pin.
C15_ResolveInjective ==
    /\ DOMAIN outputs_map = {RelayNames[n] : n \in 1 .. 16}
    /\ \A r1, r2 \in DOMAIN outputs_map : r1 /= r2 => outputs_map[r1] /= outputs_map[r2]
    /\ \A i \in Pins :
          /\ outputs_map[RelayNames[i + 1]] = <<ADDR_OUTPUTS_1_8, i>>
          /\ outputs_map[RelayNames[i + 9]] = <<ADDR_OUTPUTS_9_16, i>>
    /\ ADDR_OUTPUTS_1_8 = 36
    /\ ADDR_OUTPUTS_9_16 = 37
    /\ pc = "responded" =>
          \A n \in 1 .. 16 : \A s \in {"on", "off"} :
              Names(last, RelayNames[n], s) =>
                  calls = <<[addr |-> IF n <= 8 THEN 36 ELSE 37,
                             pin |-> (n - 1) % 8,
                             state |-> (s = "on")]>>

\* relay=16&state=off called write_pin(7, False) on the chip at 0x25 and on no other
C15_Witness ==
    /\ pc = "responded"
    /\ Names(last, "16", "off")
    /\ calls = <<[addr |-> 37, pin |-> 7, state |-> FALSE]>>

\* the output chip paired with an input chip
Paired(a) == IF a = ADDR_INPUTS_1_8 THEN ADDR_OUTPUTS_1_8 ELSE ADDR_OUTPUTS_9_16

\* C16: for both input chips and every pin i, input_to_output_map names relay i+1 (chip
\* at 0x22) or i+9 (chip at 0x21), outputs_map resolves it to pin i of the paired output
\* chip, and every relay of outputs_map is named by exactly one (input chip, pin); so
\* every write_pin of a pass of scan_keys is on pin i of the output chip paired with an
\* input chip whose button i is down.
C16_ButtonDrivesItsRelay ==
    /\ \A a \in InputAddrs : \A i \in Pins :
          /\ input_to_output_map[a][i]
                 = RelayNames[IF a = ADDR_INPUTS_1_8 THEN i + 1 ELSE i + 9]
          /\ input_to_output_map[a][i] \in DOMAIN outputs_map
          /\ outputs_map[input_to_output_map[a][i]] = <<Paired(a), i>>
    /\ \A r \in DOMAIN outputs_map :
          Cardinality({x \in InputAddrs \X Pins : input_to_output_map[x[1]][x[2]] = r}) = 1
    /\ ADDR_INPUTS_1_8 = 34
    /\ ADDR_INPUTS_9_16 = 33
    /\ last.op \in {"scan", "scan_start"} =>
          \A k \in 1 .. Len(calls) :
              \E a \in DOMAIN prev_state : \E i \in Pins :
                  /\ Bit(reg[a], i) = 0
                  /\ calls[k].addr = Paired(a)
                  /\ calls[k].pin = i

\* button 9 (pin 0 of the chip at 0x21) went down: one write_pin, on pin 0 of the chip at 0x25
C16_Witness ==
    /\ last.op = "scan"
    /\ Len(calls) = 1
    /\ calls[1].addr = 37
    /\ calls[1].pin = 0
    /\ reg[ADDR_INPUTS_9_16] = 254

----------------------------------------------------------------------------
(* C13: the same request twice *)

\* C13: with both output chips valid and no failed bus write, when relay=all&state=off
\* is requested twice, the state query after the first request and the one after the
\* second both report every relay "off", and the second request leaves the output
\* chips' cached bytes as the first left them; and a state query made right after
\* another one reports the same relays.
C13_Idempotent ==
    [][/\ (/\ pc = "reported" /\ pc' = "repeated"
           /\ Names(last.after, "all", "off")
           /\ \A a \in OutputAddrs : is_valid[a]
           /\ NoBusFailure(last.written)
           /\ NoBusFailure(bus')) =>
              /\ \A r \in DOMAIN outputs_map : response.relays[r] = "off"
              /\ \A a \in OutputAddrs : value'[a] = value[a]
       /\ (/\ pc = "repeated" /\ pc' = "rereported"
           /\ Names(last, "all", "off")
           /\ \A a \in OutputAddrs : is_valid[a]
           /\ NoBusFailure(bus)) =>
              \A r \in DOMAIN outputs_map : response'.relays[r] = "off"
       /\ (pc = "reported" /\ pc' = "requeried") =>
              response'.relays = response.relays]_vars

\* relay=all&state=off, the query, the same request again and the query again: both
\* output chips hold 0x00 and all sixteen relays are reported off
C13_Witness ==
    /\ pc = "rereported"
    /\ Names(last.after, "all", "off")
    /\ NoBusFailure(last.written)
    /\ Len(last.written) = 16
    /\ value[ADDR_OUTPUTS_1_8] = 0
    /\ value[ADDR_OUTPUTS_9_16] = 0
    /\ \A r \in DOMAIN outputs_map : response.relays[r] = "off"

----------------------------------------------------------------------------
(* C18: write_pin *)

\* C18: write_pin(n, state) on a valid chip without bus failure leaves bit n of the
\* cached byte 1 when state is true and 0 when it is false, leaves the other seven bits
\* as they were in the cached byte before the call, makes one bus transaction, the write
\* of the resulting byte (and no read), and changes no other chip's cached byte.
C18_WritePinFrame ==
    [][(/\ pc = "device" /\ pc' = "written"
        /\ is_valid[last'.addr]
        /\ NoBusFailure(bus')) =>
          /\ Bit(value'[last'.addr], last'.pin) = IF last'.state THEN 1 ELSE 0
          /\ \A p \in Pins \ {last'.pin} :
                Bit(value'[last'.addr], p) = Bit(value[last'.addr], p)
          /\ bus' = <<BusEntry("write", last'.addr, value'[last'.addr], TRUE)>>
          /\ reg'[last'.addr] = value'[last'.addr]
          /\ \A b \in Addrs \ {last'.addr} : value'[b] = value[b] /\ reg'[b] = reg[b]]_vars

\* write_pin(2, False) on the chip at 0x24 caching 0xA5: 0xA1 cached and written
C18_Witness ==
    /\ pc = "written"
    /\ last.addr = ADDR_OUTPUTS_1_8
    /\ last.pin = 2
    /\ ~last.state
    /\ value[ADDR_OUTPUTS_1_8] = 161
    /\ bus = <<BusEntry("write", ADDR_OUTPUTS_1_8, 161, TRUE)>>

----------------------------------------------------------------------------
(* C12: a chip marked invalid at construction *)

\* the step is one device operation on the chip at last'.addr
IsDeviceOp == last'.op \in {"read_all", "read_pin", "write_all", "write_pin"}

\* the number of the first input of an input chip
Base(a) == IF a = ADDR_INPUTS_1_8 THEN 1 ELSE 9

\* C12: read_all, read_pin, write_all and write_pin on an invalid chip make no bus
\* transaction, change no cached byte and no register, and the reads return None and
\* False; no operation makes a bus transaction with an invalid chip; and with a chip
\* invalid, a control request without bus failure still sets the bits of the relays it
\* names on valid chips, a state query still reports the freshly read pins of each valid
\* input chip and the relays from the cached bytes, and a pass of scan_keys still reads
\* each valid input chip, calls write_pin once per falling edge and takes the snapshot.
C12_InvalidChipIsNoOp ==
    [][/\ (IsDeviceOp /\ ~is_valid[last'.addr]) =>
             /\ bus' = <<>>
             /\ value' = value /\ reg' = reg /\ last_ok' = last_ok
             /\ last'.op = "read_all" => last'.ret = None
             /\ last'.op = "read_pin" => last'.ret = FALSE
       /\ \A k \in 1 .. Len(bus') : is_valid[bus'[k].addr]
       /\ (pc = "device" /\ last'.op = "control" /\ NoBusFailure(bus')) =>
             \A r \in DOMAIN outputs_map : \A s \in {"on", "off"} :
                 (/\ Names(last', r, s) \/ Names(last', "all", s)
                  /\ is_valid[outputs_map[r][1]]) =>
                     /\ RelayBit(value', r) = IF s = "on" THEN 1 ELSE 0
                     /\ RelayBit(reg', r) = RelayBit(value', r)
       /\ (pc = "device" /\ last'.op = "state") =>
             /\ \A a \in InputAddrs : \A i \in Pins :
                   (is_valid[a] /\ NoBusFailure(bus')) =>
                       /\ ReadOk(bus', a)
                       /\ response'.inputs[XName(i + Base(a))] = (Bit(reg[a], i) = 0)
             /\ response'.relays = RelaysState(value)
       /\ (pc = "device" /\ last'.op = "scan") =>
             \A a \in InputAddrs :
                 (is_valid[a] /\ NoBusFailure(bus')) =>
                     /\ ReadOk(bus', a)
                     /\ prev_state'[a] = reg[a]
                     /\ \A i \in Pins :
                           CallsFor(calls', input_to_output_map[a][i])
                               = IF Bit(prev_state[a], i) = 1 /\ Bit(reg[a], i) = 0
                                 THEN 1 ELSE 0]_vars

\* relay=all&state=off with the chip at 0x24 invalid: its cached byte stays 0xFF with no
\* bus transaction, and the chip at 0x25 is written down to 0x00
C12_Witness ==
    /\ pc = "done"
    /\ Names(last, "all", "off")
    /\ ~is_valid[ADDR_OUTPUTS_1_8]
    /\ value[ADDR_OUTPUTS_1_8] = 255
    /\ Len(calls) = 16
    /\ Len(bus) = 8
    /\ value[ADDR_OUTPUTS_9_16] = 0
    /\ reg[ADDR_OUTPUTS_9_16] = 0

====
